---------------------------- MODULE Spec2Model ----------------------------
(***************************************************************************)
(* LED.py: one invocation of the T9 Plus LED controller script.            *)
(*                                                                         *)
(* main() parses the arguments, build_command_packet() encodes them into   *)
(* a 5-byte frame and send_command() opens the serial port, programs the   *)
(* 10000 baud rate (TCGETS2/TCSETS2 ioctls on Linux, pyserial's baudrate   *)
(* setter elsewhere), writes the frame one byte at a time with a 5 ms      *)
(* pause after each byte, and closes the port.                             *)
(*                                                                         *)
(* The serial port, the kernel and pyserial are the environment: which of  *)
(* their calls fails is an input of the invocation (variable fault).       *)
(***************************************************************************)
EXTENDS Integers, Sequences, FiniteSets, TLC

(***************************************************************************)
(* Bit operations on non-negative integers (Python's & | ~ on c_uint).     *)
(***************************************************************************)
RECURSIVE BitAnd(_, _)
BitAnd(a, b) ==
    IF a = 0 \/ b = 0 THEN 0
    ELSE (a % 2) * (b % 2) + 2 * BitAnd(a \div 2, b \div 2)

RECURSIVE BitOr(_, _)
BitOr(a, b) ==
    IF a = 0 THEN b
    ELSE IF b = 0 THEN a
    ELSE (IF a % 2 = 1 \/ b % 2 = 1 THEN 1 ELSE 0) + 2 * BitOr(a \div 2, b \div 2)

\* a & ~m
RECURSIVE BitAndNot(_, _)
BitAndNot(a, m) ==
    IF a = 0 THEN 0
    ELSE (a % 2) * (1 - (m % 2)) + 2 * BitAndNot(a \div 2, m \div 2)

(***************************************************************************)
(* Protocol constants.                                                     *)
(***************************************************************************)
BAUD_RATE == 10000

\* b'\xfa'
BEGIN_BYTE == <<250>>

MODE_BYTES ==
    [off       |-> <<4>>,
     auto      |-> <<5>>,
     rainbow   |-> <<1>>,
     breathing |-> <<2>>,
     cycle     |-> <<3>>]

BRIGHTNESS_BYTES ==
    ("5" :> <<1>>) @@ ("4" :> <<2>>) @@ ("3" :> <<3>>) @@ ("2" :> <<4>>) @@ ("1" :> <<5>>)

SPEED_BYTES ==
    ("5" :> <<1>>) @@ ("4" :> <<2>>) @@ ("3" :> <<3>>) @@ ("2" :> <<4>>) @@ ("1" :> <<5>>)

\* The rate serial.Serial() is opened at before the custom rate is programmed.
STANDARD_RATE == 9600

\* time.sleep(0.005), in milliseconds.
SLEEP_MS == 5

(***************************************************************************)
(* build_command_packet                                                    *)
(***************************************************************************)
\* checksum computed without the & 0xFF truncation
checksum_val_unmasked(mode_byte, brightness_byte, speed_byte) ==
    BEGIN_BYTE[1] + mode_byte[1] + brightness_byte[1] + speed_byte[1]

checksum_val(mode_byte, brightness_byte, speed_byte) ==
    BitAnd(BEGIN_BYTE[1] + mode_byte[1] + brightness_byte[1] + speed_byte[1], 255)

\* int.to_bytes(1, 'big')
to_bytes(v) == <<v>>

\* brightness and speed bytes emitted in the wrong order
build_command_packet_swapped(m, b, s) ==
    LET mode_byte       == MODE_BYTES[m]
        brightness_byte == BRIGHTNESS_BYTES[b]
        speed_byte      == SPEED_BYTES[s]
        checksum_byte   == to_bytes(checksum_val(mode_byte, brightness_byte, speed_byte))
    IN  <<BEGIN_BYTE, mode_byte, speed_byte, brightness_byte, checksum_byte>>

build_command_packet(m, b, s) ==
    LET mode_byte       == MODE_BYTES[m]
        brightness_byte == BRIGHTNESS_BYTES[b]
        speed_byte      == SPEED_BYTES[s]
        checksum_byte   == to_bytes(checksum_val(mode_byte, brightness_byte, speed_byte))
    IN  <<BEGIN_BYTE, mode_byte, brightness_byte, speed_byte, checksum_byte>>

(***************************************************************************)
(* bytes.hex(): two lowercase hexadecimal digits per byte.                 *)
(***************************************************************************)
HexDigits ==
    <<"0", "1", "2", "3", "4", "5", "6", "7", "8", "9", "a", "b", "c", "d", "e", "f">>

RECURSIVE hex(_)
hex(bs) ==
    IF bs = <<>> THEN <<>>
    ELSE <<HexDigits[(Head(bs) \div 16) + 1], HexDigits[(Head(bs) % 16) + 1]>>
         \o hex(Tail(bs))

(***************************************************************************)
(* The termios2 structure and the flag constants of _set_custom_baud_rate. *)
(***************************************************************************)
NCCS == 32

\* 0o010000
BOTHER == 4096

\* termios.CBAUD on Linux: 0o010017
CBAUD == 4111

\* Termios2(): a zero-initialised ctypes structure
Termios2 ==
    [c_iflag |-> 0, c_oflag |-> 0, c_cflag |-> 0, c_lflag |-> 0, c_line |-> 0,
     c_cc |-> [i \in 1..NCCS |-> 0], c_ispeed |-> 0, c_ospeed |-> 0]

\* c_cflag |= BOTHER without clearing the CBAUD bits first
SetCustomRate_keep_cbaud(t, baudrate) ==
    [t EXCEPT !.c_cflag  = BitOr(t.c_cflag, BOTHER),
              !.c_ispeed = baudrate,
              !.c_ospeed = baudrate]

\* the four assignments between the two ioctl calls
SetCustomRate(t, baudrate) ==
    [t EXCEPT !.c_cflag  = BitOr(BitAndNot(t.c_cflag, CBAUD), BOTHER),
              !.c_ispeed = baudrate,
              !.c_ospeed = baudrate]

(***************************************************************************)
(* The environment: platform, line settings after open, failing call.      *)
(***************************************************************************)
Platforms == {"linux", "win32"}

\* default_port of main()
DefaultPort(p) == IF p = "win32" THEN "COM3" ELSE "/dev/ttyUSB0"

\* Line settings of the device once serial.Serial(port, 9600) has configured
\* it: B9600 | CS8 | CREAD | CLOCAL, with or without HUPCL, VMIN/VTIME zero.
TtyAfterOpen ==
    { [c_iflag |-> 0, c_oflag |-> 0, c_cflag |-> 2237, c_lflag |-> 0, c_line |-> 0,
       c_cc |-> [i \in 1..NCCS |-> 0],
       c_ispeed |-> STANDARD_RATE, c_ospeed |-> STANDARD_RATE],
      [c_iflag |-> 4, c_oflag |-> 4, c_cflag |-> 3261, c_lflag |-> 2560, c_line |-> 0,
       c_cc |-> [i \in 1..NCCS |-> IF i = 1 THEN 3 ELSE 0],
       c_ispeed |-> STANDARD_RATE, c_ospeed |-> STANDARD_RATE] }

NoException == [type |-> "none", detail |-> "", code |-> 0]

\* The call of the invocation that fails, if any, and what it raises.
Faults(p) ==
    { [at |-> "none", idx |-> 0, type |-> "none", detail |-> ""],
      [at |-> "open", idx |-> 0, type |-> "SerialException",
       detail |-> "could not open port"] }
    \cup (IF p = "linux"
          THEN { [at |-> "TCGETS2", idx |-> 0, type |-> "IOError",
                  detail |-> "Inappropriate ioctl for device"],
                 [at |-> "TCSETS2", idx |-> 0, type |-> "IOError",
                  detail |-> "Invalid argument"] }
          ELSE { [at |-> "baudrate", idx |-> 0, type |-> "SerialException",
                  detail |-> "Cannot configure port"],
                 [at |-> "baudrate", idx |-> 0, type |-> "ValueError",
                  detail |-> "Not a valid baudrate"] })
    \cup { [at |-> "write", idx |-> i, type |-> "SerialException",
            detail |-> "write failed"] : i \in 1..5 }

\* How many times the script is run against the same environment.
MaxRuns == 2

VARIABLES
    platform,    \* sys.platform
    ttyInit,     \* line settings serial.Serial() leaves on the device
    fault,       \* the environment's failing call
    mode,        \* args.mode
    brightness,  \* args.brightness
    speed,       \* args.speed
    verbose,     \* args.verbose
    pc,          \* position in main() / send_command()
    packet,      \* command_packet
    idx,         \* position of byte_to_send in packet (1-based)
    is_open,     \* s.is_open
    tty,         \* line settings of the device (kernel side)
    termios2,    \* the local Termios2 structure
    exc,         \* the exception in flight
    ops,         \* history: operations performed on the port
    ioctls,      \* history: ioctl requests with the structure passed
    out,         \* history: lines printed
    exitCode,    \* process exit status, -1 while running
    run,         \* number of the current run
    prev         \* histories of the previous run

vars == <<platform, ttyInit, fault, mode, brightness, speed, verbose, pc, packet,
          idx, is_open, tty, termios2, exc, ops, ioctls, out, exitCode, run, prev>>

env == <<platform, ttyInit, fault, mode, brightness, speed>>

Op(name, arg, ok) == [op |-> name, arg |-> arg, ok |-> ok]

Line(msg, arg) == [msg |-> msg, arg |-> arg]

NoPrev == [ops |-> <<>>, ioctls |-> <<>>, out |-> <<>>, exitCode |-> -1]

Init ==
    /\ platform \in Platforms
    /\ ttyInit \in TtyAfterOpen
    /\ fault \in Faults(platform)
    /\ mode \in DOMAIN MODE_BYTES
    /\ brightness \in DOMAIN BRIGHTNESS_BYTES
    /\ speed \in DOMAIN SPEED_BYTES
    /\ verbose \in BOOLEAN
    /\ pc = "main"
    /\ packet = <<>>
    /\ idx = 0
    /\ is_open = FALSE
    /\ tty = ttyInit
    /\ termios2 = Termios2
    /\ exc = NoException
    /\ ops = <<>>
    /\ ioctls = <<>>
    /\ out = <<>>
    /\ exitCode = -1
    /\ run = 1
    /\ prev = NoPrev

(***************************************************************************)
(* main(): argument report and packet construction.                        *)
(***************************************************************************)
ParseArgs ==
    /\ pc = "main"
    /\ out' = IF ~verbose
              THEN Append(out, Line("Mode", <<mode, brightness, speed>>))
              ELSE out
    /\ pc' = "build"
    /\ UNCHANGED <<env, verbose, packet, idx, is_open, tty, termios2, exc, ops,
                   ioctls, exitCode, run, prev>>

BuildPacket ==
    /\ pc = "build"
    /\ packet' = build_command_packet(mode, brightness, speed)
    /\ pc' = "connect"
    /\ UNCHANGED <<env, verbose, idx, is_open, tty, termios2, exc, ops, ioctls,
                   out, exitCode, run, prev>>

(***************************************************************************)
(* send_command()                                                          *)
(***************************************************************************)
\* print("Connecting ..."); with serial.Serial(serial_port, 9600, timeout=1) as s
Connect ==
    /\ pc = "connect"
    /\ out' = Append(out, Line("Connecting", <<DefaultPort(platform)>>))
    /\ IF fault.at = "open"
       THEN /\ ops' = Append(ops, Op("open", <<STANDARD_RATE>>, FALSE))
            /\ exc' = [type |-> fault.type, detail |-> fault.detail, code |-> 0]
            /\ pc' = "except"
            /\ UNCHANGED <<is_open, tty>>
       ELSE /\ ops' = Append(ops, Op("open", <<STANDARD_RATE>>, TRUE))
            /\ is_open' = TRUE
            /\ tty' = ttyInit
            /\ pc' = IF platform = "linux" THEN "TCGETS2" ELSE "baudrate"
            /\ UNCHANGED exc
    /\ UNCHANGED <<env, verbose, packet, idx, termios2, ioctls, exitCode, run, prev>>

\* except IOError as e: the handler ignores the failure and goes on to send
IoctlFailed_ignored(e) ==
    /\ pc' = "send"
    /\ UNCHANGED <<out, exc>>

\* except IOError as e: the handler leaves the process without unwinding
IoctlFailed_no_unwind(e) ==
    /\ out' = out \o <<Line("Error: Could not set custom baud rate via ioctl.", <<>>),
                       Line("Details", <<e.detail>>),
                       Line("This may happen on older kernels.", <<>>)>>
    /\ exc' = [type |-> "SystemExit", detail |-> "", code |-> 1]
    /\ pc' = "except"

\* except IOError as e: three lines are printed, then sys.exit(1)
IoctlFailed(e) ==
    /\ out' = out \o <<Line("Error: Could not set custom baud rate via ioctl.", <<>>),
                       Line("Details", <<e.detail>>),
                       Line("This may happen on older kernels.", <<>>)>>
    /\ exc' = [type |-> "SystemExit", detail |-> "", code |-> 1]
    /\ pc' = "with_exit"

\* _set_custom_baud_rate: termios2 = Termios2(); fcntl.ioctl(fd, TCGETS2, termios2)
IoctlGet ==
    /\ pc = "TCGETS2"
    /\ ops' = Append(ops, Op("TCGETS2", <<>>, fault.at # "TCGETS2"))
    /\ IF fault.at = "TCGETS2"
       THEN /\ ioctls' = Append(ioctls, [req |-> "TCGETS2", arg |-> Termios2, ok |-> FALSE])
            /\ termios2' = Termios2
            /\ IoctlFailed(fault)
       ELSE /\ ioctls' = Append(ioctls, [req |-> "TCGETS2", arg |-> tty, ok |-> TRUE])
            /\ termios2' = tty
            /\ pc' = "TCSETS2"
            /\ UNCHANGED <<out, exc>>
    /\ UNCHANGED <<env, verbose, packet, idx, is_open, tty, exitCode, run, prev>>

\* _set_custom_baud_rate: the flag and speed assignments, fcntl.ioctl(fd, TCSETS2, termios2)
IoctlSet ==
    /\ pc = "TCSETS2"
    /\ termios2' = SetCustomRate(termios2, BAUD_RATE)
    /\ ops' = Append(ops, Op("TCSETS2", <<BAUD_RATE>>, fault.at # "TCSETS2"))
    /\ ioctls' = Append(ioctls, [req |-> "TCSETS2", arg |-> termios2',
                                 ok |-> fault.at # "TCSETS2"])
    /\ IF fault.at = "TCSETS2"
       THEN /\ IoctlFailed(fault)
            /\ UNCHANGED tty
       ELSE /\ tty' = termios2'
            /\ pc' = "send"
            /\ UNCHANGED <<out, exc>>
    /\ UNCHANGED <<env, verbose, packet, idx, is_open, exitCode, run, prev>>

\* s.baudrate = BAUD_RATE
SetBaudrate ==
    /\ pc = "baudrate"
    /\ ops' = Append(ops, Op("baudrate", <<BAUD_RATE>>, fault.at # "baudrate"))
    /\ IF fault.at = "baudrate"
       THEN /\ exc' = [type |-> fault.type, detail |-> fault.detail, code |-> 0]
            /\ pc' = "with_exit"
            /\ UNCHANGED tty
       ELSE /\ tty' = [tty EXCEPT !.c_ispeed = BAUD_RATE, !.c_ospeed = BAUD_RATE]
            /\ pc' = "send"
            /\ UNCHANGED exc
    /\ UNCHANGED <<env, verbose, packet, idx, is_open, termios2, ioctls, out,
                   exitCode, run, prev>>

\* print("Sending command packet..."); for byte_to_send in packet
BeginSend ==
    /\ pc = "send"
    /\ out' = Append(out, Line("Sending command packet...", <<>>))
    /\ idx' = 1
    /\ pc' = IF packet = <<>> THEN "with_exit" ELSE "write"
    /\ UNCHANGED <<env, verbose, packet, is_open, tty, termios2, exc, ops, ioctls,
                   exitCode, run, prev>>

\* s.write(byte_to_send); if verbose: print(f"  -> Sent {byte_to_send.hex()}")
WriteByte ==
    /\ pc = "write"
    /\ IF fault.at = "write" /\ fault.idx = idx
       THEN /\ ops' = Append(ops, Op("write", packet[idx], FALSE))
            /\ exc' = [type |-> fault.type, detail |-> fault.detail, code |-> 0]
            /\ pc' = "with_exit"
            /\ UNCHANGED out
       ELSE /\ ops' = Append(ops, Op("write", packet[idx], TRUE))
            /\ out' = IF verbose
                      THEN Append(out, Line("Sent", hex(packet[idx])))
                      ELSE out
            /\ pc' = "sleep"
            /\ UNCHANGED exc
    /\ UNCHANGED <<env, verbose, packet, idx, is_open, tty, termios2, ioctls,
                   exitCode, run, prev>>

\* the pause is taken only when nothing was printed for the byte
Sleep_unless_verbose ==
    /\ pc = "sleep"
    /\ ops' = IF verbose THEN ops ELSE Append(ops, Op("sleep", <<SLEEP_MS>>, TRUE))
    /\ idx' = idx + 1
    /\ pc' = IF idx + 1 > Len(packet) THEN "with_exit" ELSE "write"
    /\ UNCHANGED <<env, verbose, packet, is_open, tty, termios2, exc, ioctls, out,
                   exitCode, run, prev>>

\* the loop goes on to the next byte without pausing
Sleep_skipped ==
    /\ pc = "sleep"
    /\ idx' = idx + 1
    /\ pc' = IF idx + 1 > Len(packet) THEN "with_exit" ELSE "write"
    /\ UNCHANGED <<env, verbose, packet, is_open, tty, termios2, exc, ops, ioctls,
                   out, exitCode, run, prev>>

\* time.sleep(0.005), then the next byte of the packet
Sleep ==
    /\ pc = "sleep"
    /\ ops' = Append(ops, Op("sleep", <<SLEEP_MS>>, TRUE))
    /\ idx' = idx + 1
    /\ pc' = IF idx + 1 > Len(packet) THEN "with_exit" ELSE "write"
    /\ UNCHANGED <<env, verbose, packet, is_open, tty, termios2, exc, ioctls, out,
                   exitCode, run, prev>>

\* Serial.__exit__: the with statement closes the port on every way out
ClosePort ==
    /\ pc = "with_exit"
    /\ is_open' = FALSE
    /\ ops' = Append(ops, Op("close", <<>>, TRUE))
    /\ pc' = IF exc.type = "none" THEN "sent" ELSE "except"
    /\ UNCHANGED <<env, verbose, packet, idx, tty, termios2, exc, ioctls, out,
                   exitCode, run, prev>>

\* print("Command sent successfully."); main() returns
CommandSent ==
    /\ pc = "sent"
    /\ out' = Append(out, Line("Command sent successfully.", <<>>))
    /\ exitCode' = 0
    /\ pc' = "done"
    /\ UNCHANGED <<env, verbose, packet, idx, is_open, tty, termios2, exc, ops,
                   ioctls, run, prev>>

(***************************************************************************)
(* main(): the except clauses, and SystemExit passing through them.        *)
(***************************************************************************)
MainExcept ==
    /\ pc = "except"
    /\ IF exc.type = "SerialException"
       THEN /\ out' = out \o <<Line("Error: Could not open serial port", <<DefaultPort(platform)>>),
                               Line("Details", <<exc.detail>>),
                               Line("Please ensure the device is connected", <<>>)>>
            /\ exitCode' = 1
       ELSE IF exc.type = "SystemExit"
       THEN /\ out' = out
            /\ exitCode' = exc.code
       ELSE /\ out' = Append(out, Line("An unexpected error occurred", <<exc.detail>>))
            /\ exitCode' = 1
    /\ exc' = NoException
    /\ pc' = "done"
    /\ UNCHANGED <<env, verbose, packet, idx, is_open, tty, termios2, ops, ioctls,
                   run, prev>>

(***************************************************************************)
(* The script is run again, against the same environment and with the same *)
(* arguments except for -v.                                                *)
(***************************************************************************)
Reinvoke ==
    /\ pc = "done"
    /\ run < MaxRuns
    /\ run' = run + 1
    /\ prev' = [ops |-> ops, ioctls |-> ioctls, out |-> out, exitCode |-> exitCode]
    /\ verbose' = ~verbose
    /\ pc' = "main"
    /\ packet' = <<>>
    /\ idx' = 0
    /\ is_open' = FALSE
    /\ tty' = ttyInit
    /\ termios2' = Termios2
    /\ exc' = NoException
    /\ ops' = <<>>
    /\ ioctls' = <<>>
    /\ out' = <<>>
    /\ exitCode' = -1
    /\ UNCHANGED env

Next ==
    \/ ParseArgs
    \/ BuildPacket
    \/ Connect
    \/ IoctlGet
    \/ IoctlSet
    \/ SetBaudrate
    \/ BeginSend
    \/ WriteByte
    \/ Sleep
    \/ ClosePort
    \/ CommandSent
    \/ MainExcept
    \/ Reinvoke

Spec == Init /\ [][Next]_vars

(***************************************************************************)
(* Derived views of the histories.                                         *)
(***************************************************************************)
Count(name) == Len(SelectSeq(ops, LAMBDA o : o.op = name))

Opened == \E i \in 1..Len(ops) : ops[i].op = "open" /\ ops[i].ok

OpenFailed == \E i \in 1..Len(ops) : ops[i].op = "open" /\ ~ops[i].ok

RateFailed ==
    \E i \in 1..Len(ops) : ops[i].op \in {"TCGETS2", "TCSETS2", "baudrate"} /\ ~ops[i].ok

WriteFailed == \E i \in 1..Len(ops) : ops[i].op = "write" /\ ~ops[i].ok

\* the writes and pauses, in the order they happened
TxOps == SelectSeq(ops, LAMBDA o : o.op \in {"write", "sleep"})

\* control has left the with block of send_command
Returned == pc \in {"sent", "except", "done"}

\* the rate in effect on the open port is the target rate
RateConfigured ==
    /\ is_open
    /\ tty.c_ispeed = BAUD_RATE
    /\ tty.c_ospeed = BAUD_RATE
    /\ platform = "linux" => BitAnd(tty.c_cflag, CBAUD) = BOTHER

\* The error kind a printed line reports.
ErrorKind ==
    [m \in {"Error: Could not open serial port",
            "Error: Could not set custom baud rate via ioctl.",
            "An unexpected error occurred"} |->
        IF m = "Error: Could not open serial port" THEN "PortUnavailable"
        ELSE IF m = "Error: Could not set custom baud rate via ioctl."
        THEN "CustomBaudRateUnsupported"
        ELSE "Unexpected"]

ReportedKinds ==
    { ErrorKind[out[i].msg] : i \in { j \in 1..Len(out) : out[j].msg \in DOMAIN ErrorKind } }

DetailReported ==
    \E i \in 1..Len(out) :
        /\ out[i].msg \in {"Details", "An unexpected error occurred"}
        /\ out[i].arg = <<fault.detail>>

ModeReported ==
    \E i \in 1..Len(out) :
        out[i].msg = "Mode" /\ out[i].arg = <<mode, brightness, speed>>

Level == ("1" :> 1) @@ ("2" :> 2) @@ ("3" :> 3) @@ ("4" :> 4) @@ ("5" :> 5)

(***************************************************************************)
(* C1: whenever the port was opened, it is closed exactly once before      *)
(* control leaves send_command, on every exit path (normal completion,     *)
(* the sys.exit(1) of the ioctl handler, a failing write); it is never     *)
(* closed twice and no run ends with the port open.                        *)
(***************************************************************************)
C1_PortClosedOnce ==
    /\ Count("close") <= 1
    /\ (Returned /\ Opened) => (~is_open /\ Count("close") = 1)
    /\ pc = "done" => ~is_open

C1_Witness ==
    /\ pc = "done"
    /\ fault.at = "TCSETS2"
    /\ Opened
    /\ exitCode = 1
    /\ Count("close") = 1

(***************************************************************************)
(* C2: the writes and pauses of a run alternate write, 5 ms pause, write,  *)
(* ...; the k-th write carries exactly the one byte packet[k]; only the    *)
(* last write may have failed; a successful run has made exactly 5 writes, *)
(* each followed by its pause.                                             *)
(***************************************************************************)
C2_FiveWritesPaced ==
    /\ Len(TxOps) <= 10
    /\ \A k \in 1..Len(TxOps) :
          IF k % 2 = 1
          THEN /\ TxOps[k].op = "write"
               /\ Len(TxOps[k].arg) = 1
               /\ TxOps[k].arg = packet[(k + 1) \div 2]
               /\ (k < Len(TxOps) => TxOps[k].ok)
          ELSE TxOps[k] = Op("sleep", <<5>>, TRUE)
    /\ exitCode = 0 =>
          /\ Len(TxOps) = 10
          /\ Count("write") = 5
          /\ \A k \in 1..10 : TxOps[k].ok

C2_Witness ==
    /\ exitCode = 0
    /\ Count("write") = 5
    /\ Count("sleep") = 5

(***************************************************************************)
(* C3: within a run the port goes Closed(0) -> Opened at the standard rate *)
(* (1) -> RateConfigured at 10000 (2) -> Transmitting (3) -> Closed (4),   *)
(* one phase at a time or directly to Closed, never backwards; a byte is   *)
(* written only on an open port on which the 10000 rate is in effect; and  *)
(* no step is attempted twice.                                             *)
(***************************************************************************)
Phase ==
    IF ~is_open THEN (IF ops = <<>> THEN 0 ELSE 4)
    ELSE IF Count("write") > 0 THEN 3
    ELSE IF RateConfigured THEN 2
    ELSE 1

C3_NoRetry ==
    /\ Count("open") <= 1
    /\ Count("TCGETS2") <= 1
    /\ Count("TCSETS2") <= 1
    /\ Count("baudrate") <= 1
    /\ Phase = 3 => (RateConfigured /\ idx \in 1..6)

C3_Step ==
    run' = run =>
        /\ Phase' \in {Phase, Phase + 1, 4}
        /\ Phase = 4 => Phase' = 4
        /\ Count("write")' > Count("write") => (is_open /\ RateConfigured)

\* C3: no step is retried, and every step of a run moves the port along
\* Closed -> Opened -> RateConfigured -> Transmitting -> Closed.
C3_StateSequence == []C3_NoRetry /\ [][C3_Step]_vars

C3_Witness ==
    /\ platform = "linux"
    /\ Phase = 3
    /\ pc = "write"
    /\ idx = 3

(***************************************************************************)
(* C4: whenever programming the 10000 rate failed (TCGETS2, TCSETS2 or the *)
(* baudrate setter), the run ends with a non-zero status, the only error   *)
(* kind reported is CustomBaudRateUnsupported, the underlying detail is    *)
(* printed and no byte was written.                                        *)
(***************************************************************************)
C4_RateFailureKind ==
    (pc = "done" /\ RateFailed) =>
        /\ exitCode # 0
        /\ ReportedKinds = {"CustomBaudRateUnsupported"}
        /\ DetailReported
        /\ Count("write") = 0

(***************************************************************************)
(* C5: whenever the write of a byte failed, the run reports the error kind *)
(* WriteFailed (not PortUnavailable), the failed write is the last write   *)
(* and there is one write per index.                                       *)
(***************************************************************************)
C5_WriteFailureKind ==
    (pc = "done" /\ WriteFailed) =>
        /\ ReportedKinds = {"WriteFailed"}
        /\ Count("write") = fault.idx
        /\ ~TxOps[Len(TxOps)].ok

(***************************************************************************)
(* C6: the fifth byte of every packet built is the sum of the first four   *)
(* modulo 256, a value of 0..255.                                          *)
(***************************************************************************)
C6_ChecksumMod256 ==
    packet # <<>> =>
        /\ Len(packet) = 5
        /\ packet[5] = <<(packet[1][1] + packet[2][1] + packet[3][1] + packet[4][1]) % 256>>
        /\ packet[5][1] \in 0..255

C6_Witness ==
    /\ packet # <<>>
    /\ packet[1][1] + packet[2][1] + packet[3][1] + packet[4][1] > 255
    /\ packet[5][1] < 16

(***************************************************************************)
(* C7: every packet built is the five single bytes 0xFA, mode byte         *)
(* (off 4, auto 5, rainbow 1, breathing 2, cycle 3), 6 - brightness level, *)
(* 6 - speed level, checksum, in that order; (rainbow,3,3) gives           *)
(* FA 01 03 03 01 and (off,5,1) gives FA 04 01 05 04.                      *)
(***************************************************************************)
C7_ModeTable ==
    ("off" :> 4) @@ ("auto" :> 5) @@ ("rainbow" :> 1) @@ ("breathing" :> 2) @@ ("cycle" :> 3)

\* C7: the packet is [0xFA, mode byte, 6 - brightness, 6 - speed, checksum].
C7_FrameLayout ==
    packet # <<>> =>
        /\ packet = << <<250>>,
                       <<C7_ModeTable[mode]>>,
                       <<6 - Level[brightness]>>,
                       <<6 - Level[speed]>>,
                       <<(250 + C7_ModeTable[mode] + (6 - Level[brightness])
                              + (6 - Level[speed])) % 256>> >>
        /\ (mode = "rainbow" /\ brightness = "3" /\ speed = "3")
              => packet = << <<250>>, <<1>>, <<3>>, <<3>>, <<1>> >>
        /\ (mode = "off" /\ brightness = "5" /\ speed = "1")
              => packet = << <<250>>, <<4>>, <<1>>, <<5>>, <<4>> >>

C7_Witness ==
    /\ mode = "off"
    /\ brightness = "5"
    /\ speed = "1"
    /\ packet = << <<250>>, <<4>>, <<1>>, <<5>>, <<4>> >>

(***************************************************************************)
(* C8: a run and the run before it, which differ only in verbose, have     *)
(* performed the same port operations with the same outcomes and the same  *)
(* ioctl requests, and have printed the same lines apart from main()'s     *)
(* report; the only difference is that the verbose run prints, for each    *)
(* byte written, in order, its two hexadecimal digits.                     *)
(***************************************************************************)
C8_SentLines(o) == SelectSeq(o, LAMBDA l : l.msg = "Sent")

C8_OtherLines(o) == SelectSeq(o, LAMBDA l : l.msg \notin {"Sent", "Mode"})

C8_OkWrites == SelectSeq(ops, LAMBDA o : o.op = "write" /\ o.ok)

C8_DigitValue(d) == (CHOOSE i \in 1..16 : HexDigits[i] = d) - 1

\* C8: verbose changes nothing but the per-byte hexadecimal lines.
C8_VerboseNonInterference ==
    /\ (run > 1 /\ pc = "done") =>
          /\ ops = prev.ops
          /\ ioctls = prev.ioctls
          /\ C8_OtherLines(out) = C8_OtherLines(prev.out)
    /\ IF verbose
       THEN /\ Len(C8_SentLines(out)) = Len(C8_OkWrites)
            /\ \A i \in 1..Len(C8_OkWrites) :
                  LET d == C8_SentLines(out)[i].arg
                  IN  /\ Len(d) = 2
                      /\ 16 * C8_DigitValue(d[1]) + C8_DigitValue(d[2])
                            = C8_OkWrites[i].arg[1]
       ELSE C8_SentLines(out) = <<>>

C8_Witness ==
    /\ run = 2
    /\ pc = "done"
    /\ verbose
    /\ exitCode = 0
    /\ Len(C8_SentLines(out)) = 5
    /\ C8_SentLines(prev.out) = <<>>
    /\ Len(ops) = Len(prev.ops)

(***************************************************************************)
(* C9: every finished run either has status 0, with no failure, 5 bytes    *)
(* written and the resolved mode/brightness/speed reported, or has a       *)
(* non-zero status, with a failure whose own error kind and detail were    *)
(* printed.                                                                *)
(***************************************************************************)
C9_ExpectedKind ==
    IF fault.at = "open" THEN "PortUnavailable"
    ELSE IF fault.at = "write" THEN "WriteFailed"
    ELSE "CustomBaudRateUnsupported"

\* C9: status 0 only after a complete, reported transmission; otherwise a
\* non-zero status with the failure's own error kind and detail printed.
C9_ExitOutcome ==
    pc = "done" =>
        \/ /\ exitCode = 0
           /\ ~(OpenFailed \/ RateFailed \/ WriteFailed)
           /\ Len(SelectSeq(ops, LAMBDA o : o.op = "write" /\ o.ok)) = 5
           /\ ModeReported
        \/ /\ exitCode # 0
           /\ (OpenFailed \/ RateFailed \/ WriteFailed)
           /\ ReportedKinds = {C9_ExpectedKind}
           /\ DetailReported

(***************************************************************************)
(* C10: _set_custom_baud_rate issues TCGETS2 first and TCSETS2 only after  *)
(* TCGETS2 succeeded; the structure read is the descriptor's current one;  *)
(* the structure written equals the one read except that every CBAUD bit   *)
(* of c_cflag is cleared, then BOTHER is set, and c_ispeed = c_ospeed =    *)
(* 10000; a successful TCSETS2 makes it the descriptor's structure and a   *)
(* failed request leaves the descriptor's structure as it was.             *)
(***************************************************************************)
C10_Bit(x, i) == (x \div (2 ^ i)) % 2

\* C10: the structure written back differs from the one read only in the
\* CBAUD/BOTHER bits of c_cflag and in the two speeds.
C10_TermiosFrame ==
    /\ Len(ioctls) <= 2
    /\ Len(ioctls) >= 1 =>
          /\ ioctls[1].req = "TCGETS2"
          /\ ioctls[1].ok => ioctls[1].arg = ttyInit
          /\ ~ioctls[1].ok => (Len(ioctls) = 1 /\ tty = ttyInit)
    /\ Len(ioctls) = 2 =>
          LET r == ioctls[1].arg
              w == ioctls[2].arg
          IN  /\ ioctls[1].ok
              /\ ioctls[2].req = "TCSETS2"
              /\ w.c_iflag = r.c_iflag
              /\ w.c_oflag = r.c_oflag
              /\ w.c_lflag = r.c_lflag
              /\ w.c_line = r.c_line
              /\ w.c_cc = r.c_cc
              /\ w.c_ispeed = 10000
              /\ w.c_ospeed = 10000
              /\ \A i \in 0..30 :
                    C10_Bit(w.c_cflag, i) =
                        IF C10_Bit(CBAUD, i) = 1 THEN C10_Bit(BOTHER, i)
                        ELSE C10_Bit(r.c_cflag, i)
              /\ tty = IF ioctls[2].ok THEN w ELSE r

C10_Witness ==
    /\ Len(ioctls) = 2
    /\ ioctls[2].ok
    /\ ioctls[1].arg.c_cflag = 3261
    /\ ioctls[2].arg.c_cflag = 7344
    /\ ioctls[1].arg.c_lflag = 2560

=============================================================================
